---- MODULE Spec2Model ----
(***************************************************************************)
(* A model of the Proportions ledger of the natural-selection simulation   *)
(* (ProportionsModel, ProportionsCounts) and of the parts of the screen    *)
(* view that drive it (reset-all button, endSimulation).                   *)
(*                                                                         *)
(* axon Properties are modelled by their value; a set of a Property that   *)
(* changes the value runs the listeners registered on it, in registration  *)
(* order, inside the same step.  BunnyCounts objects are modelled by their *)
(* identity, a number in Counts: ProportionsModel never looks inside one.  *)
(* `assert && assert( c, msg )` is modelled as a check that throws when c  *)
(* is false (the assertions-enabled build); a thrown error ends the        *)
(* handler where it is and is kept in `thrown` until the next operation.   *)
(* The display flags valuesVisible / furVisible / earsVisible /            *)
(* teethVisible of ProportionsModel are independent booleans that no       *)
(* listener of the ledger reads, and are not part of the state here.       *)
(*                                                                         *)
(* The simulation controller, the gene pool, the inheritance engine and    *)
(* the selection engine are described from the specification of the        *)
(* simulation: random draws are nondeterministic choices.                  *)
(***************************************************************************)
EXTENDS Integers, Sequences, FiniteSets, TLC

\* Bounds of the model: the generations the clock runs through, and the
\* BunnyCounts objects told apart.
MaxGen == 2
MaxCount == 1

\* A retention limit one may configure for the history (the ledger has none).
RetentionLimit == 1

\* Bounds of the population: the organisms the arena can hold, and the largest
\* floor and carrying capacity configured.
MaxBunnies == 4
MaxFloor == 2
MaxCapacity == 3

\* The most attachments of one listener that are told apart.
MaxListeners == 2

\* The x axis of the Population graph: the ticks that make one generation (the
\* time in generations is not an integer), the longest time in generations,
\* and the longest range the scroller is created with, in generations.
TicksPerGeneration == 2
MaxTime == 3
MaxLength == 2

\* The deepest Pedigree branch built.
MaxDepth == 3

\* The value of a nullable Property that holds no object.
NULL == -1

\* BunnyCounts.withZero(), the initial value of startCountsProperty / endCountsProperty.
WithZero == 0

Generations == 0..MaxGen
Counts == 0..MaxCount
Genes == {"fur", "ears", "teeth"}
Alleles == {"normal", "mutant"}
NoAllele == "null"
SimulationModes == {"STAGED", "ACTIVE", "COMPLETED"}

\* The emitters whose listeners end the simulation.
\* The UI components whose enabled state the simulation mode decides.
Controls == {"addMutationsPanel", "environmentalFactorsPanel",
             "timeControlNode", "environmentRadioButtonGroup"}

TerminalEvents == {"allBunniesHaveDied", "bunniesHaveTakenOverTheWorld", "memoryLimit"}

VARIABLES
  clockGeneration,        \* clockGenerationProperty.value
  isPlaying,              \* isPlayingProperty.value
  liveBunnyCounts,        \* liveBunnyCountsProperty.value
  proportionsGeneration,  \* proportionsGenerationProperty.value
  proportionsRange,       \* proportionsGenerationProperty.range, <<min, max>>
  startCounts,            \* startCountsProperty.value
  endCounts,              \* endCountsProperty.value
  currentStartCounts,     \* currentStartCountsProperty.value, NULL or a BunnyCounts
  previousCounts,         \* previousCounts, a sequence of ProportionsCounts
  updateEndCountsListeners, \* how many times updateEndCounts is attached to liveBunnyCountsProperty
  simulationMode,         \* model.simulationModeProperty.value
  dominantAllele,         \* gene.dominantAlleleProperty.value, for each gene
  controlsEnabled,        \* enabled state of the panels / time controls / radio buttons
  thrown,                 \* the error the last operation ended with, or "none"
  startGeneration,        \* history: the generation argument of the accepted
                          \* recordStartCounts call that set currentStartCounts, or NULL
  resetNote,              \* history: how many times in a row reset-all was just pressed
                          \* (2 for two or more) and what the first press found
  emitted,                \* history: the terminal event emitted in the last step, or "none"
  pendingStart,           \* history: the counts passed to the accepted recordStartCounts
                          \* for the next generation to get its record, or NULL
  father,                 \* genotype of the father of the birth being made
  mother,                 \* genotype of the mother of the birth being made
  offspring,              \* genotype of the offspring breed returned, or NoOffspring
  pendingMutation,        \* history: the gene of the pending mutation applied to the
                          \* birth, or NoGene
  arena,                  \* the organisms ever created, indexed by id
  floor,                  \* configured minimum surviving count of predation
  capacity,               \* configured carrying capacity of starvation
  culled,                 \* history: how many times each organism was selected to die
  pass,                   \* history: what the last selection pass did
  rangeProperty,          \* the x range <<min, max>> of the Population graph, in ticks
  maxProperty,            \* the scroller's maxProperty: the time in generations, in ticks
  rangeLength,            \* the scroller's rangeLength, in ticks
  backButtonEnabled,      \* backButton.enabled
  forwardButtonEnabled,   \* forwardButton.enabled
  pressed,                \* history: the button of the scroller just pressed
  direction,              \* the only button the user is pressing for now, if any
  alleleRows,             \* the Row of the Alleles panel, for each gene
  pedigree                \* the Pedigree branch last built

vars == <<clockGeneration, isPlaying, liveBunnyCounts, proportionsGeneration,
          proportionsRange, startCounts, endCounts, currentStartCounts,
          previousCounts, updateEndCountsListeners, simulationMode, dominantAllele,
          controlsEnabled, thrown, startGeneration, resetNote, emitted,
          pendingStart, father, mother, offspring, pendingMutation,
          arena, floor, capacity, culled, pass,
          rangeProperty, maxProperty, rangeLength, backButtonEnabled,
          forwardButtonEnabled, pressed, direction, alleleRows, pedigree>>

\* The state of the simulation and its ledger, of the inheritance engine, and
\* of the population and its selection engine.
simVars == <<clockGeneration, isPlaying, liveBunnyCounts, proportionsGeneration,
             proportionsRange, startCounts, endCounts, currentStartCounts,
             previousCounts, updateEndCountsListeners, simulationMode, dominantAllele,
             controlsEnabled, thrown, startGeneration, resetNote, emitted,
             pendingStart>>
breedVars == <<father, mother, offspring, pendingMutation>>
popVars == <<arena, floor, capacity, culled, pass>>

\* The state of the generation scroller and the Pedigree branch on display.
scrollVars == <<rangeProperty, maxProperty, rangeLength, backButtonEnabled,
                forwardButtonEnabled, pressed, direction>>
viewVars == <<scrollVars, pedigree>>

----------------------------------------------------------------------------
\* The ledger and the Properties it listens to, as one record, so that a
\* handler is a function from the state before to the state after.

Cur ==
  [clk |-> clockGeneration, playing |-> isPlaying, live |-> liveBunnyCounts,
   pg |-> proportionsGeneration, rng |-> proportionsRange,
   start |-> startCounts, end |-> endCounts, csc |-> currentStartCounts,
   prev |-> previousCounts, linked |-> updateEndCountsListeners, thrown |-> "none"]

Commit(m) ==
  /\ clockGeneration' = m.clk
  /\ isPlaying' = m.playing
  /\ liveBunnyCounts' = m.live
  /\ proportionsGeneration' = m.pg
  /\ proportionsRange' = m.rng
  /\ startCounts' = m.start
  /\ endCounts' = m.end
  /\ currentStartCounts' = m.csc
  /\ previousCounts' = m.prev
  /\ updateEndCountsListeners' = m.linked
  /\ thrown' = m.thrown

Throw(m, e) == [m EXCEPT !.thrown = e]

\* A ProportionsCounts that numbers generations from 1.
ProportionsCounts_OneBased(generation, sc, ec) ==
  [generation |-> generation + 1, startCounts |-> sc, endCounts |-> ec]

\* new ProportionsCounts( generation, startCounts, endCounts )
ProportionsCounts(generation, sc, ec) ==
  [generation |-> generation, startCounts |-> sc, endCounts |-> ec]

\* const updateEndCounts = () => { this.endCountsProperty.value = liveBunnyCountsProperty.value; }
UpdateEndCounts(m) == [m EXCEPT !.end = m.live]

\* liveBunnyCountsProperty.unlink( updateEndCounts ) without asking whether
\* it is attached, which it then is every other time.
Unlink_Never(m) == m

\* if ( liveBunnyCountsProperty.hasListener( updateEndCounts ) ) {
\*   liveBunnyCountsProperty.unlink( updateEndCounts ); }
Unlink(m) ==
  IF m.linked > 0 THEN [m EXCEPT !.linked = m.linked - 1] ELSE m

\* liveBunnyCountsProperty.link( updateEndCounts )
Link(m) ==
  [m EXCEPT !.linked = IF m.linked < MaxListeners THEN m.linked + 1 ELSE MaxListeners]

\* The display multilink copying the live counts once instead of linking
\* updateEndCounts to them.
DisplayMultilink_NoLink(m) ==
  IF m.thrown # "none" THEN m
  ELSE
    LET u == Unlink(m) IN
    IF m.csc # NULL
    THEN IF m.pg = m.clk
         THEN UpdateEndCounts([u EXCEPT !.start = m.csc])
         ELSE IF m.pg + 1 > Len(m.prev)
              THEN Throw(u, "TypeError")
              ELSE LET counts == m.prev[m.pg + 1] IN
                   IF counts.generation # m.pg
                   THEN Throw(u, "UnexpectedGeneration")
                   ELSE [u EXCEPT !.start = counts.startCounts,
                                  !.end = counts.endCounts]
    ELSE [u EXCEPT !.start = WithZero, !.end = WithZero]

\* The multilink on [ proportionsGenerationProperty, currentStartCountsProperty ]
\* that decides what data to display.
DisplayMultilink(m) ==
  IF m.thrown # "none" THEN m
  ELSE
    LET u == Unlink(m) IN
    IF m.csc # NULL
    THEN IF m.pg = m.clk
         THEN UpdateEndCounts(Link([u EXCEPT !.start = m.csc]))
         ELSE IF m.pg + 1 > Len(m.prev)
              THEN Throw(u, "TypeError")   \* previousCounts[ g ] is undefined
              ELSE LET counts == m.prev[m.pg + 1] IN
                   IF counts.generation # m.pg
                   THEN Throw(u, "UnexpectedGeneration")
                   ELSE [u EXCEPT !.start = counts.startCounts,
                                  !.end = counts.endCounts]
    ELSE [u EXCEPT !.start = WithZero, !.end = WithZero]

\* The link on proportionsGenerationProperty never pausing the sim.
PauseLink_Never(m) == m

\* The link on proportionsGenerationProperty that pauses the sim when a
\* generation other than the current one is viewed.  (The listeners of
\* isPlayingProperty do nothing when it becomes false.)
PauseLink(m) ==
  IF m.thrown # "none" THEN m
  ELSE IF m.pg # m.clk THEN [m EXCEPT !.playing = FALSE] ELSE m

\* proportionsGenerationProperty.value = v, with its listeners in registration order.
SetProportionsGeneration(m, v) ==
  IF m.thrown # "none" \/ v = m.pg THEN m
  ELSE DisplayMultilink(PauseLink([m EXCEPT !.pg = v]))

\* proportionsGenerationProperty.setValueAndRange( v, r ): both are set, then
\* the value's listeners are notified if the value changed.
SetValueAndRange(m, v, r) ==
  IF m.thrown # "none" THEN m
  ELSE SetProportionsGeneration([m EXCEPT !.rng = r], v)

\* The multilink showing the current generation whether or not the sim plays.
ShowCurrentMultilink_Always(m) ==
  IF m.thrown # "none" THEN m
  ELSE SetValueAndRange(m, m.clk, <<0, m.clk>>)

\* The multilink on [ isPlayingProperty, clockGenerationProperty ] that shows
\* the current generation.
ShowCurrentMultilink(m) ==
  IF m.thrown # "none" THEN m
  ELSE IF m.playing THEN SetValueAndRange(m, m.clk, <<0, m.clk>>) ELSE m

\* clockGenerationProperty changes to g.
SetClockGeneration(m, g) ==
  IF m.thrown # "none" \/ g = m.clk THEN m
  ELSE ShowCurrentMultilink([m EXCEPT !.clk = g])

\* isPlayingProperty.value = b
SetIsPlaying(m, b) ==
  IF m.thrown # "none" \/ b = m.playing THEN m
  ELSE ShowCurrentMultilink([m EXCEPT !.playing = b])

\* currentStartCountsProperty.value = c (hasDataProperty is derived from it)
SetCurrentStartCounts(m, c) ==
  IF m.thrown # "none" \/ c = m.csc THEN m
  ELSE DisplayMultilink([m EXCEPT !.csc = c])

\* liveBunnyCountsProperty.value = c
SetLiveBunnyCounts(m, c) ==
  IF m.thrown # "none" \/ c = m.live THEN m
  ELSE IF m.linked > 0 THEN UpdateEndCounts([m EXCEPT !.live = c])
       ELSE [m EXCEPT !.live = c]

\* recordStartCounts without its check of the generation.
RecordStartCounts_Unchecked(m, generation, sc) ==
  IF m.thrown # "none" THEN m
  ELSE SetCurrentStartCounts(m, sc)

\* recordStartCounts storing the start counts before it checks the generation.
RecordStartCounts_StoreFirst(m, generation, sc) ==
  IF m.thrown # "none" THEN m
  ELSE IF generation # m.clk
       THEN Throw(SetCurrentStartCounts(m, sc), "NotCurrentGeneration")
       ELSE SetCurrentStartCounts(m, sc)

\* ProportionsModel.recordStartCounts( clockGeneration, startCounts )
RecordStartCounts(m, generation, sc) ==
  IF m.thrown # "none" THEN m
  ELSE IF generation # m.clk THEN Throw(m, "NotCurrentGeneration")
  ELSE SetCurrentStartCounts(m, sc)

\* recordEndCounts storing the clock's generation in the record.
RecordEndCounts_ClockGeneration(m, generation, ec) ==
  IF m.thrown # "none" THEN m
  ELSE IF generation # m.clk - 1 THEN Throw(m, "NotPreviousGeneration")
  ELSE IF Len(m.prev) # generation THEN Throw(m, "UnexpectedEndGeneration")
  ELSE IF m.csc = NULL THEN Throw(m, "InvalidStartCounts")
  ELSE [m EXCEPT !.prev = Append(m.prev, ProportionsCounts(m.clk, m.csc, ec))]

\* recordEndCounts keeping only the newest record (a retention limit of 1).
RecordEndCounts_Evicting(m, generation, ec) ==
  IF m.thrown # "none" THEN m
  ELSE IF generation # m.clk - 1 THEN Throw(m, "NotPreviousGeneration")
  ELSE IF m.csc = NULL THEN Throw(m, "InvalidStartCounts")
  ELSE [m EXCEPT !.prev = <<ProportionsCounts(generation, m.csc, ec)>>]

\* recordEndCounts without its check of previousCounts.length.
RecordEndCounts_NoLengthCheck(m, generation, ec) ==
  IF m.thrown # "none" THEN m
  ELSE IF generation # m.clk - 1 THEN Throw(m, "NotPreviousGeneration")
  ELSE IF m.csc = NULL THEN Throw(m, "InvalidStartCounts")
  ELSE [m EXCEPT !.prev = Append(m.prev, ProportionsCounts(generation, m.csc, ec))]

\* recordEndCounts checking previousCounts.length >= generation instead of ===.
RecordEndCounts_LengthAtLeast(m, generation, ec) ==
  IF m.thrown # "none" THEN m
  ELSE IF generation # m.clk - 1 THEN Throw(m, "NotPreviousGeneration")
  ELSE IF Len(m.prev) < generation THEN Throw(m, "UnexpectedEndGeneration")
  ELSE IF m.csc = NULL THEN Throw(m, "InvalidStartCounts")
  ELSE [m EXCEPT !.prev = Append(m.prev, ProportionsCounts(generation, m.csc, ec))]

\* ProportionsModel.recordEndCounts( generation, endCounts )
RecordEndCounts(m, generation, ec) ==
  IF m.thrown # "none" THEN m
  ELSE IF generation # m.clk - 1 THEN Throw(m, "NotPreviousGeneration")
  ELSE IF Len(m.prev) # generation THEN Throw(m, "UnexpectedEndGeneration")
  ELSE IF m.csc = NULL THEN Throw(m, "InvalidStartCounts")  \* ProportionsCounts constructor
  ELSE [m EXCEPT !.prev = Append(m.prev, ProportionsCounts(generation, m.csc, ec))]

\* ProportionsModel.reset()
ResetStep2(m) ==
  IF m.thrown # "none" THEN m
  ELSE [m EXCEPT !.start = WithZero, !.end = WithZero]

ResetStep3(m) ==
  IF m.thrown # "none" THEN m
  ELSE [m EXCEPT !.prev = << >>]

\* reset() without currentStartCountsProperty.reset().
ProportionsModelReset_KeepStartCounts(m) ==
  ResetStep3(ResetStep2(SetValueAndRange(m, 0, <<0, 0>>)))

\* reset() without previousCounts.length = 0.
ProportionsModelReset_KeepHistory(m) ==
  SetCurrentStartCounts(ResetStep2(SetValueAndRange(m, 0, <<0, 0>>)), NULL)

ProportionsModelReset(m) ==
  ResetStep3(SetCurrentStartCounts(ResetStep2(SetValueAndRange(m, 0, <<0, 0>>)), NULL))

----------------------------------------------------------------------------
\* The screen view.

\* endSimulation leaving the mode as it is.
EndSimulation_KeepMode(mode) == mode

\* The link on model.simulationModeProperty leaving the UI components enabled
\* whatever the mode.
SimulationModeLink_AlwaysEnabled(mode) == [c \in Controls |-> TRUE]

\* The link on model.simulationModeProperty leaving the time controls alone.
SimulationModeLink_NotTimeControls(mode) ==
  [c \in Controls |-> (c = "timeControlNode") \/ (mode # "COMPLETED")]

\* The link on model.simulationModeProperty: the mode decides which UI
\* components are enabled.
SimulationModeLink(mode) ==
  LET enabled == (mode # "COMPLETED") IN [c \in Controls |-> enabled]

\* const endSimulation = () => { ... model.simulationModeProperty.value = SimulationMode.COMPLETED; ... }
EndSimulation(mode) == "COMPLETED"

\* model.reset(), called by the reset-all button: the generation clock goes
\* back to generation 0, the founder population (counts c) replaces the live
\* one, and the Proportions ledger is reset.
ModelReset(m, c) ==
  ProportionsModelReset(SetLiveBunnyCounts(SetClockGeneration(m, 0), c))

\* model.startOver(), called by the 'Start Over' button: the simulation is set
\* up again as model.reset() sets it up (clock, population, gene pool and the
\* data of the graphs).
ModelStartOver(m, c) == ModelReset(m, c)

\* The errors of the ledger's sequencing checks (the spec's OutOfOrderError).
OutOfOrder == {"NotCurrentGeneration", "NotPreviousGeneration", "UnexpectedEndGeneration"}

\* The errors of a rejected ledger call: a check failed before anything was changed.
Rejected == OutOfOrder \cup {"InvalidStartCounts"}

\* The dominance state of the gene pool after genePool.reset(): unknown for every gene.
GenePoolReset == [g \in Genes |-> NoAllele]

NoReset == [count |-> 0, records |-> 0, mutated |-> FALSE]

NoteReset ==
  IF resetNote.count = 0
  THEN [count |-> 1, records |-> Len(previousCounts),
        mutated |-> (dominantAllele # GenePoolReset)]
  ELSE [resetNote EXCEPT !.count = 2]

----------------------------------------------------------------------------
\* The inheritance engine.

\* No pending mutation is supplied for the birth.
NoGene == "none"

\* An allele pair, unordered: the normal allele is written first.
UnorderedPair(a, b) == IF a = "mutant" /\ b = "normal" THEN <<b, a>> ELSE <<a, b>>

AllelePairs == {UnorderedPair(a, b) : a \in Alleles, b \in Alleles}

Genotypes == [Genes -> AllelePairs]

\* The genotype of a founder: both alleles normal, for every gene.
FounderGenotype == [g \in Genes |-> <<"normal", "normal">>]

\* No birth has been made yet.
NoOffspring == [g \in Genes |-> <<NoAllele, NoAllele>>]

\* The alleles of a pair.
AllelesOf(pair) == {pair[1], pair[2]}

\* The random draws of one birth: for each gene, which allele of the father's
\* pair and which of the mother's pair is passed on.
Draws == [Genes -> 1..2]

\* Inheritance taking both alleles of a gene from the father's pair.
Inherit_FatherOnly(fg, mg, fi, mi) ==
  [g \in Genes |-> UnorderedPair(fg[g][fi[g]], fg[g][mi[g]])]

\* For each gene independently, one allele drawn from the father's pair and
\* one drawn from the mother's pair.
Inherit(fg, mg, fi, mi) ==
  [g \in Genes |-> UnorderedPair(fg[g][fi[g]], mg[g][mi[g]])]

\* A pending mutation of gene: allele k of the offspring's pair for that gene
\* is replaced by the mutant allele.
ApplyMutation(genotype, gene, k) ==
  [genotype EXCEPT ![gene] =
     UnorderedPair("mutant", genotype[gene][3 - k])]

\* breed( father, mother, pendingMutation? ): the genotype of the offspring.
Breed(fg, mg, fi, mi, gene, k) ==
  IF gene = NoGene THEN Inherit(fg, mg, fi, mi)
  ELSE ApplyMutation(Inherit(fg, mg, fi, mi), gene, k)

\* The dominance draws activateMutation( gene ) can make when breed invokes it:
\* a coin flip if the gene has no mutant allele yet, nothing otherwise.
ActivationDraws(gene) ==
  IF gene # NoGene /\ dominantAllele[gene] = NoAllele THEN Alleles ELSE {NoAllele}

\* The registry after breed has activated the pending mutation, if it had to.
Activated(gene, d) ==
  IF d = NoAllele THEN dominantAllele ELSE [dominantAllele EXCEPT ![gene] = d]

----------------------------------------------------------------------------
\* The population and the selection engine.

\* The parent of a founder.
NoParent == 0

Organism(generation, f, m) ==
  [generation |-> generation, alive |-> TRUE, father |-> f, mother |-> m]

\* The founder population.
Founders == <<Organism(0, NoParent, NoParent), Organism(0, NoParent, NoParent)>>

Ids(ar) == 1..Len(ar)

\* The live organisms.
Alive(ar) == {i \in Ids(ar) : ar[i].alive}

Min2(a, b) == IF a <= b THEN a ELSE b
Max2(a, b) == IF a >= b THEN a ELSE b

\* The generation of the newest organisms.
NewestGeneration(ar) ==
  CHOOSE g \in {ar[i].generation : i \in Ids(ar)} :
    \A i \in Ids(ar) : ar[i].generation <= g

\* The current generation: that of the oldest live organisms.
CurrentGeneration(ar) ==
  CHOOSE g \in {ar[i].generation : i \in Alive(ar)} :
    \A i \in Alive(ar) : g <= ar[i].generation

\* The alive flag of the organisms of K becomes false.
Kill(ar, K) ==
  [i \in Ids(ar) |-> IF i \in K THEN [ar[i] EXCEPT !.alive = FALSE] ELSE ar[i]]

\* The deaths counted after the alive flags of K were set to false.
CountDeaths(d, K) == [i \in DOMAIN d |-> IF i \in K THEN d[i] + 1 ELSE d[i]]

\* Predation culling its target whatever the floor.
Predation_NoFloor(exposed, target, fl) ==
  {K \in SUBSET exposed : Cardinality(K) = Min2(target, Cardinality(exposed))}

\* Predation: the sets of organisms weighted random sampling can select among
\* the exposed ones: target of them, or as many as the floor leaves.
Predation(exposed, target, fl) ==
  {K \in SUBSET exposed :
     Cardinality(K) = Min2(target, Max2(Cardinality(exposed) - fl, 0))}

\* Starvation culling one organism more than the excess.
Starvation_OneMore(live, cap) ==
  {K \in SUBSET live :
     Cardinality(K) = Min2(Max2(Cardinality(live) - cap, 0) + 1, Cardinality(live))}

\* Starvation: the sets of organisms random sampling can select among the
\* live ones: the excess over the carrying capacity.
Starvation(live, cap) ==
  {K \in SUBSET live : Cardinality(K) = Max2(Cardinality(live) - cap, 0)}

\* The organisms retired without looking at their alive flag.
Retired_AliveOrNot(ar) ==
  {i \in Ids(ar) : ar[i].generation < NewestGeneration(ar)}

\* End-of-generation retirement: the live organisms of a generation whose
\* cycle has completed (a newer generation exists).
Retired(ar) ==
  {i \in Alive(ar) : ar[i].generation < NewestGeneration(ar)}

NoPass == [before |-> {}, predation |-> FALSE, predated |-> {},
           starvation |-> FALSE, exposed |-> {}, starved |-> {}]

----------------------------------------------------------------------------
\* The generation scroller of the Population graph.  Times are counted in
\* ticks, TicksPerGeneration of them to a generation.

\* options.step: 1 (generation)
Step == TicksPerGeneration

\* The lengths the range of the x axis can have, a whole number of generations.
RangeLengths == {n * TicksPerGeneration : n \in 1..MaxLength}

\* Math.ceil( x ) and Math.floor( x )
Ceil(x) == ((x + TicksPerGeneration - 1) \div TicksPerGeneration) * TicksPerGeneration
Floor(x) == (x \div TicksPerGeneration) * TicksPerGeneration

\* The back button moving the upper end of the range only.
Back_KeepMin(range, len) == <<range[1], Ceil(range[2] - Step)>>

\* const back = () => { ... rangeProperty.value = new Range( min, max ); }
Back(range, len) ==
  LET max == Ceil(range[2] - Step)   \* snap to integer value
      min == max - len
  IN <<min, max>>

\* The forward button stepping whatever maxProperty is.
Forward_NoMax(range, maxValue, len) ==
  LET max == Floor(range[2] + Step) IN <<max - len, max>>

\* const forward = () => { ... rangeProperty.value = new Range( min, max ); }
Forward(range, maxValue, len) ==
  LET max == Min2(maxValue, Floor(range[2] + Step))
      min == max - len
  IN <<min, max>>

\* The multilink on [ rangeProperty, maxProperty ] that enables the buttons.
EnableButtons(range, max) ==
  [back |-> range[1] > 0, forward |-> range[2] < max]

\* The scroller as constructed on a range of length len starting at 0, at
\* time 0.
ScrollerConstructed(len) ==
  /\ rangeLength = len
  /\ rangeProperty = <<0, len>>
  /\ maxProperty = 0
  /\ backButtonEnabled = EnableButtons(<<0, len>>, 0).back
  /\ forwardButtonEnabled = EnableButtons(<<0, len>>, 0).forward
  /\ pressed = "none"
  /\ direction = "any"

----------------------------------------------------------------------------
\* The rows of the Alleles panel (with the allelesVisible query parameter on).

\* A Row before its link on gene.dominantAlleleProperty has run: the normal
\* allele's image stands for the dominant allele, the mutant's for the
\* recessive one.
RowConstructed ==
  [checkboxEnabled |-> TRUE, hBoxVisible |-> TRUE, visible |-> FALSE,
   dominantImage |-> "normal", recessiveImage |-> "mutant"]

\* The Row's link setting the icons whether or not there is a dominant allele.
RowLink_AlwaysIcons(row, dominant, isSettingPhetioState) ==
  LET hasMutation == (dominant # NoAllele)
      mutantIsDominant == (dominant = "mutant")
  IN [row EXCEPT !.checkboxEnabled = hasMutation,
                 !.hBoxVisible = hasMutation,
                 !.visible = IF isSettingPhetioState THEN @ ELSE hasMutation,
                 !.dominantImage = IF mutantIsDominant THEN "mutant" ELSE "normal",
                 !.recessiveImage = IF mutantIsDominant THEN "normal" ELSE "mutant"]

\* The Row's link leaving the checkbox enabled.
RowLink_CheckboxEnabled(row, dominant, isSettingPhetioState) ==
  [RowLink_AlwaysIcons(row, dominant, isSettingPhetioState)
     EXCEPT !.checkboxEnabled = TRUE]

\* gene.dominantAlleleProperty.link( dominantAllele => { ... } ), where
\* visible is the value of the Row's visibleProperty.
RowLink(row, dominant, isSettingPhetioState) ==
  LET hasMutation == (dominant # NoAllele)
      r == [row EXCEPT !.checkboxEnabled = hasMutation,
                       !.hBoxVisible = hasMutation,
                       !.visible = IF isSettingPhetioState THEN @ ELSE hasMutation]
  IN IF hasMutation
     THEN LET mutantIsDominant == (dominant = "mutant") IN
          [r EXCEPT !.dominantImage = IF mutantIsDominant THEN "mutant" ELSE "normal",
                    !.recessiveImage = IF mutantIsDominant THEN "normal" ELSE "mutant"]
     ELSE r

\* new Row( gene, ... ): link calls the listener with the gene's dominant allele.
Row(dominant) == RowLink(RowConstructed, dominant, FALSE)

\* The links of the rows run for the genes whose dominant allele changes in a
\* step (outside PhET-iO state restoration).
AlleleRowLinks ==
  alleleRows' = [g \in Genes |->
                   IF dominantAllele'[g] # dominantAllele[g]
                   THEN RowLink(alleleRows[g], dominantAllele'[g], FALSE)
                   ELSE alleleRows[g]]

----------------------------------------------------------------------------
\* The Pedigree graph.

RECURSIVE PedigreeBranchNode_AnyDepth(_, _, _, _)
RECURSIVE PedigreeBranchNode(_, _, _, _)

\* A branch that shows the parents at whatever depth is left.
PedigreeBranchNode_AnyDepth(ar, bunny, branchDepth, level) ==
  LET bunnyNode == <<[bunny |-> bunny, level |-> level]>> IN
  IF branchDepth > 0 /\ ar[bunny].father # NoParent /\ ar[bunny].mother # NoParent
  THEN bunnyNode
         \o PedigreeBranchNode_AnyDepth(ar, ar[bunny].father, branchDepth - 1, level + 1)
         \o PedigreeBranchNode_AnyDepth(ar, ar[bunny].mother, branchDepth - 1, level + 1)
  ELSE bunnyNode

\* new PedigreeBranchNode( bunny, ..., branchDepth, ... ): its bunny nodes,
\* each with its level above the bunny at the root of the tree.
PedigreeBranchNode(ar, bunny, branchDepth, level) ==
  LET bunnyNode == <<[bunny |-> bunny, level |-> level]>> IN
  IF branchDepth > 1 /\ ar[bunny].father # NoParent /\ ar[bunny].mother # NoParent
  THEN bunnyNode
         \o PedigreeBranchNode(ar, ar[bunny].father, branchDepth - 1, level + 1)
         \o PedigreeBranchNode(ar, ar[bunny].mother, branchDepth - 1, level + 1)
  ELSE bunnyNode

\* No branch has been built.
NoPedigree == [bunny |-> NoParent, depth |-> 0, nodes |-> << >>]

\* The views as constructed.
ViewConstructed ==
  /\ ScrollerConstructed(MaxLength * TicksPerGeneration)
  /\ alleleRows = [g \in Genes |-> Row(dominantAllele[g])]
  /\ pedigree = NoPedigree

TypeOK ==
  /\ clockGeneration \in Generations
  /\ isPlaying \in BOOLEAN
  /\ liveBunnyCounts \in Counts
  /\ proportionsGeneration \in Generations
  /\ proportionsRange \in Generations \X Generations
  /\ startCounts \in Counts
  /\ endCounts \in Counts
  /\ currentStartCounts \in Counts \cup {NULL}
  /\ previousCounts \in Seq([generation : Generations, startCounts : Counts,
                            endCounts : Counts])
  /\ updateEndCountsListeners \in 0..MaxListeners
  /\ simulationMode \in SimulationModes
  /\ dominantAllele \in [Genes -> Alleles \cup {NoAllele}]
  /\ controlsEnabled \in [Controls -> BOOLEAN]
  /\ thrown \in Rejected \cup {"none", "TypeError", "UnexpectedGeneration"}
  /\ startGeneration \in Generations \cup {NULL}
  /\ resetNote \in [count : 0..2, records : 0..MaxGen, mutated : BOOLEAN]
  /\ emitted \in TerminalEvents \cup {"none"}
  /\ pendingStart \in Counts \cup {NULL}
  /\ father \in Genotypes
  /\ mother \in Genotypes
  /\ offspring \in Genotypes \cup {NoOffspring}
  /\ pendingMutation \in Genes \cup {NoGene}
  /\ arena \in Seq([generation : 0..MaxBunnies, alive : BOOLEAN,
                     father : 0..MaxBunnies, mother : 0..MaxBunnies])
  /\ Len(arena) <= MaxBunnies
  /\ floor \in 0..MaxFloor
  /\ capacity \in 1..MaxCapacity
  /\ culled \in [1..MaxBunnies -> 0..MaxBunnies]
  /\ pass \in [before : SUBSET (1..MaxBunnies), predation : BOOLEAN,
                predated : SUBSET (1..MaxBunnies), starvation : BOOLEAN,
                exposed : SUBSET (1..MaxBunnies), starved : SUBSET (1..MaxBunnies)]
  /\ rangeProperty \in (0..(MaxTime * TicksPerGeneration)) \X (0..((MaxTime + MaxLength) * TicksPerGeneration))
  /\ maxProperty \in 0..(MaxTime * TicksPerGeneration)
  /\ rangeLength \in RangeLengths
  /\ backButtonEnabled \in BOOLEAN
  /\ forwardButtonEnabled \in BOOLEAN
  /\ pressed \in {"none", "back", "forward"}
  /\ direction \in {"any", "back", "forward"}
  /\ alleleRows \in [Genes -> [checkboxEnabled : BOOLEAN, hBoxVisible : BOOLEAN,
                                visible : BOOLEAN, dominantImage : Alleles,
                                recessiveImage : Alleles]]
  /\ pedigree.bunny \in 0..MaxBunnies
  /\ pedigree.depth \in 0..MaxDepth
  /\ \A i \in DOMAIN pedigree.nodes :
       pedigree.nodes[i] \in [bunny : 1..MaxBunnies, level : 0..MaxDepth]

\* The model after construction: the sim is staged at generation 0 and the
\* ledger is empty; the founder population has some counts.
ModelConstructed ==
  /\ clockGeneration = 0
  /\ isPlaying = TRUE
  /\ liveBunnyCounts \in Counts
  /\ proportionsGeneration = 0
  /\ proportionsRange = <<0, 0>>
  /\ startCounts = WithZero
  /\ endCounts = WithZero
  /\ currentStartCounts = NULL
  /\ previousCounts = << >>
  /\ updateEndCountsListeners = 0
  /\ simulationMode = "STAGED"
  /\ dominantAllele = GenePoolReset
  /\ controlsEnabled = SimulationModeLink("STAGED")
  /\ thrown = "none"
  /\ startGeneration = NULL
  /\ resetNote = NoReset
  /\ emitted = "none"
  /\ pendingStart = NULL
  /\ father = FounderGenotype
  /\ mother = FounderGenotype
  /\ offspring = NoOffspring
  /\ pendingMutation = NoGene
  /\ arena = Founders
  /\ floor = 0
  /\ capacity = MaxCapacity
  /\ culled = [i \in 1..MaxBunnies |-> 0]
  /\ pass = NoPass

\* The state after construction.
Init == ModelConstructed /\ ViewConstructed

----------------------------------------------------------------------------
\* Operations on the ledger and on the Properties it observes.

\* A caller calls proportionsModel.recordStartCounts( g, c ).
CallRecordStartCounts(g, c) ==
  LET m == RecordStartCounts(Cur, g, c) IN
  /\ Commit(m)
  /\ startGeneration' = IF m.thrown \in Rejected THEN startGeneration ELSE g
  /\ pendingStart' = IF m.thrown \notin Rejected /\ g = Len(previousCounts)
                     THEN c ELSE pendingStart
  /\ resetNote' = NoReset
  /\ emitted' = "none"
  /\ UNCHANGED <<breedVars, popVars, viewVars>>
  /\ UNCHANGED <<simulationMode, dominantAllele, controlsEnabled>>
  /\ AlleleRowLinks

\* A caller calls proportionsModel.recordEndCounts( g, c ).
CallRecordEndCounts(g, c) ==
  /\ Commit(RecordEndCounts(Cur, g, c))
  /\ pendingStart' = IF Len(previousCounts') = Len(previousCounts) THEN pendingStart
                     ELSE IF startGeneration = Len(previousCounts')
                          THEN currentStartCounts ELSE NULL
  /\ resetNote' = NoReset
  /\ emitted' = "none"
  /\ UNCHANGED <<breedVars, popVars, viewVars>>
  /\ UNCHANGED <<simulationMode, dominantAllele, controlsEnabled, startGeneration>>
  /\ AlleleRowLinks

\* The generation clock reaches the next generation.
ClockAdvance ==
  /\ clockGeneration < MaxGen
  /\ Commit(SetClockGeneration(Cur, clockGeneration + 1))
  /\ resetNote' = NoReset
  /\ emitted' = "none"
  /\ UNCHANGED pendingStart
  /\ UNCHANGED <<breedVars, popVars, viewVars>>
  /\ UNCHANGED <<simulationMode, dominantAllele, controlsEnabled, startGeneration>>
  /\ AlleleRowLinks

\* The play/pause button.
TogglePlaying ==
  /\ controlsEnabled["timeControlNode"]
  /\ Commit(SetIsPlaying(Cur, ~isPlaying))
  /\ resetNote' = NoReset
  /\ emitted' = "none"
  /\ UNCHANGED pendingStart
  /\ UNCHANGED <<breedVars, popVars, viewVars>>
  /\ UNCHANGED <<simulationMode, dominantAllele, controlsEnabled, startGeneration>>
  /\ AlleleRowLinks

\* The live population changes (a bunny is born, dies or is added).
LiveCountsChange(c) ==
  /\ c # liveBunnyCounts
  /\ Commit(SetLiveBunnyCounts(Cur, c))
  /\ resetNote' = NoReset
  /\ emitted' = "none"
  /\ UNCHANGED pendingStart
  /\ UNCHANGED <<breedVars, popVars, viewVars>>
  /\ UNCHANGED <<simulationMode, dominantAllele, controlsEnabled, startGeneration>>
  /\ AlleleRowLinks

\* The user picks another generation of the Proportions graph, within the
\* range of proportionsGenerationProperty.
ViewGeneration(v) ==
  /\ v # proportionsGeneration
  /\ proportionsRange[1] <= v /\ v <= proportionsRange[2]
  /\ Commit(SetProportionsGeneration(Cur, v))
  /\ resetNote' = NoReset
  /\ emitted' = "none"
  /\ UNCHANGED pendingStart
  /\ UNCHANGED <<breedVars, popVars, viewVars>>
  /\ UNCHANGED <<simulationMode, dominantAllele, controlsEnabled, startGeneration>>
  /\ AlleleRowLinks

\* The reset-all button: model.reset(); this.reset().
ResetAll(c) ==
  /\ Commit(ModelReset(Cur, c))
  /\ simulationMode' = "STAGED"
  /\ controlsEnabled' = SimulationModeLink("STAGED")
  /\ dominantAllele' = GenePoolReset
  /\ startGeneration' = NULL
  /\ resetNote' = NoteReset
  /\ emitted' = "none"
  /\ pendingStart' = NULL
  /\ UNCHANGED <<breedVars, popVars, viewVars>>
  /\ AlleleRowLinks

\* The ledger under arbitrary callers of recordStartCounts / recordEndCounts,
\* while the sim plays.
Next ==
  \/ \E g \in Generations, c \in Counts : CallRecordStartCounts(g, c)
  \/ \E g \in Generations, c \in Counts : CallRecordEndCounts(g, c)
  \/ ClockAdvance
  \/ \E c \in Counts : LiveCountsChange(c)
  \/ \E c \in Counts : ResetAll(c)

Spec == Init /\ [][Next]_vars

\* The ledger under arbitrary changes of the Properties it observes, of the
\* generation viewed and of the current start counts.
NextView ==
  \/ \E g \in Generations, c \in Counts : CallRecordStartCounts(g, c)
  \/ ClockAdvance
  \/ TogglePlaying
  \/ \E c \in Counts : LiveCountsChange(c)
  \/ \E v \in Generations : ViewGeneration(v)
  \/ \E c \in Counts : ResetAll(c)

SpecView == Init /\ [][NextView]_vars

----------------------------------------------------------------------------
\* The simulation: the ledger driven by the simulation controller.

\* Staged -> Active: the controller records the start counts of the current
\* generation when the simulation begins.
StartSimulation ==
  /\ simulationMode = "STAGED"
  /\ simulationMode' = "ACTIVE"
  /\ controlsEnabled' = SimulationModeLink("ACTIVE")
  /\ Commit(RecordStartCounts(Cur, clockGeneration, liveBunnyCounts))
  /\ startGeneration' = clockGeneration
  /\ resetNote' = NoReset
  /\ emitted' = "none"
  /\ pendingStart' = liveBunnyCounts
  /\ UNCHANGED <<breedVars, popVars, viewVars>>
  /\ UNCHANGED dominantAllele
  /\ AlleleRowLinks

\* One generation boundary: the clock reaches the next generation, the end
\* counts of the generation that ended are recorded, the population ages and
\* mates (its counts become c), and the start counts of the new generation are
\* recorded.
BoundaryStep(m, c) ==
  LET ticked == SetClockGeneration(m, m.clk + 1)
      ended == RecordEndCounts(ticked, ticked.clk - 1, ticked.live)
      mated == SetLiveBunnyCounts(ended, c)
  IN RecordStartCounts(mated, mated.clk, mated.live)

\* The clock reaches a boundary only while the sim plays: the time controls
\* are given isPlayingProperty and timeSpeedProperty only (no step button),
\* and step does nothing while the sim is paused.
GenerationBoundary(c) ==
  /\ simulationMode = "ACTIVE"
  /\ isPlaying
  /\ clockGeneration < MaxGen
  /\ Commit(BoundaryStep(Cur, c))
  /\ startGeneration' = clockGeneration + 1
  /\ resetNote' = NoReset
  /\ emitted' = "none"
  /\ pendingStart' = c
  /\ UNCHANGED <<breedVars, popVars, viewVars>>
  /\ UNCHANGED <<simulationMode, dominantAllele, controlsEnabled>>
  /\ AlleleRowLinks

\* A terminal event (all bunnies have died, bunnies have taken over the world,
\* generation limit reached) is emitted: its listener ends the simulation.
TerminalEvent(e) ==
  /\ simulationMode = "ACTIVE"
  /\ simulationMode' = EndSimulation(simulationMode)
  /\ controlsEnabled' = SimulationModeLink(simulationMode')
  /\ thrown' = "none"
  /\ resetNote' = NoReset
  /\ emitted' = e
  /\ UNCHANGED pendingStart
  /\ UNCHANGED <<breedVars, popVars, viewVars>>
  /\ UNCHANGED <<clockGeneration, isPlaying, liveBunnyCounts, proportionsGeneration,
                 proportionsRange, startCounts, endCounts, currentStartCounts,
                 previousCounts, updateEndCountsListeners, dominantAllele,
                 startGeneration>>
  /\ AlleleRowLinks

\* A mutation introduced whether or not the gene already has one.
MutateGene_Again(gene, allele) ==
  /\ simulationMode = "ACTIVE"
  /\ dominantAllele' = [dominantAllele EXCEPT ![gene] = allele]
  /\ thrown' = "none"
  /\ resetNote' = NoReset
  /\ emitted' = "none"
  /\ UNCHANGED pendingStart
  /\ UNCHANGED <<breedVars, popVars, viewVars>>
  /\ UNCHANGED <<clockGeneration, isPlaying, liveBunnyCounts, proportionsGeneration,
                 proportionsRange, startCounts, endCounts, currentStartCounts,
                 previousCounts, updateEndCountsListeners, simulationMode,
                 controlsEnabled, startGeneration>>
  /\ AlleleRowLinks

\* A mutation is introduced for a gene that has none: the gene gets its
\* dominance relationship.
MutateGene(gene, allele) ==
  /\ simulationMode = "ACTIVE"
  /\ dominantAllele[gene] = NoAllele
  /\ dominantAllele' = [dominantAllele EXCEPT ![gene] = allele]
  /\ thrown' = "none"
  /\ resetNote' = NoReset
  /\ emitted' = "none"
  /\ UNCHANGED pendingStart
  /\ UNCHANGED <<breedVars, popVars, viewVars>>
  /\ UNCHANGED <<clockGeneration, isPlaying, liveBunnyCounts, proportionsGeneration,
                 proportionsRange, startCounts, endCounts, currentStartCounts,
                 previousCounts, updateEndCountsListeners, simulationMode,
                 controlsEnabled, startGeneration>>
  /\ AlleleRowLinks

\* The 'Start Over' button, offered when the simulation has completed.
StartOver(c) ==
  /\ simulationMode = "COMPLETED"
  /\ Commit(ModelStartOver(Cur, c))
  /\ simulationMode' = "STAGED"
  /\ controlsEnabled' = SimulationModeLink("STAGED")
  /\ dominantAllele' = GenePoolReset
  /\ startGeneration' = NULL
  /\ resetNote' = NoReset
  /\ emitted' = "none"
  /\ pendingStart' = NULL
  /\ UNCHANGED <<breedVars, popVars, viewVars>>
  /\ AlleleRowLinks

\* The simulation and its Proportions graph.
NextCtl ==
  \/ StartSimulation
  \/ \E c \in Counts : GenerationBoundary(c)
  \/ \E e \in TerminalEvents : TerminalEvent(e)
  \/ TogglePlaying
  \/ \E c \in Counts : LiveCountsChange(c)
  \/ \E v \in Generations : ViewGeneration(v)
  \/ \E c \in Counts : ResetAll(c)
  \/ \E c \in Counts : StartOver(c)

SpecCtl == Init /\ [][NextCtl]_vars

\* The simulation and its gene pool.
\* The user clicks the checkbox of a gene's row in the Alleles panel.
ToggleAllelesVisible(gene) ==
  /\ alleleRows[gene].checkboxEnabled
  /\ alleleRows' = [alleleRows EXCEPT ![gene].visible = ~@]
  /\ resetNote' = NoReset
  /\ emitted' = "none"
  /\ UNCHANGED <<clockGeneration, isPlaying, liveBunnyCounts, proportionsGeneration,
                 proportionsRange, startCounts, endCounts, currentStartCounts,
                 previousCounts, updateEndCountsListeners, simulationMode,
                 dominantAllele, controlsEnabled, thrown, startGeneration,
                 pendingStart>>
  /\ UNCHANGED <<breedVars, popVars, viewVars>>

\* The gene pool and the Alleles panel.
NextAlleles ==
  \/ StartSimulation
  \/ \E gene \in Genes, allele \in Alleles : MutateGene(gene, allele)
  \/ \E gene \in Genes : ToggleAllelesVisible(gene)
  \/ \E c \in Counts : ResetAll(c)

SpecAlleles == Init /\ [][NextAlleles]_vars

NextGenes ==
  \/ StartSimulation
  \/ \E c \in Counts : GenerationBoundary(c)
  \/ \E e \in TerminalEvents : TerminalEvent(e)
  \/ \E gene \in Genes, allele \in Alleles : MutateGene(gene, allele)
  \/ TogglePlaying
  \/ \E v \in Generations : ViewGeneration(v)
  \/ \E c \in Counts : ResetAll(c)
  \/ \E c \in Counts : StartOver(c)

SpecGenes == Init /\ [][NextGenes]_vars

----------------------------------------------------------------------------
\* The inheritance engine at work in an active simulation.

\* The ledger and its Properties as constructed, with founder counts c.
Constructed(c) ==
  [clk |-> 0, playing |-> TRUE, live |-> c, pg |-> 0, rng |-> <<0, 0>>,
   start |-> WithZero, end |-> WithZero, csc |-> NULL, prev |-> << >>,
   linked |-> 0, thrown |-> "none"]

Holds(m) ==
  /\ clockGeneration = m.clk
  /\ isPlaying = m.playing
  /\ liveBunnyCounts = m.live
  /\ proportionsGeneration = m.pg
  /\ proportionsRange = m.rng
  /\ startCounts = m.start
  /\ endCounts = m.end
  /\ currentStartCounts = m.csc
  /\ previousCounts = m.prev
  /\ updateEndCountsListeners = m.linked
  /\ thrown = m.thrown

\* The simulation just started (StartSimulation taken from the constructed
\* state), with founder counts c.
JustStarted(c) ==
  /\ Holds(RecordStartCounts(Constructed(c), 0, c))
  /\ simulationMode = "ACTIVE"
  /\ controlsEnabled = SimulationModeLink("ACTIVE")
  /\ startGeneration = 0
  /\ resetNote = NoReset
  /\ emitted = "none"
  /\ pendingStart = c

\* A birth is about to be made from two parents of any genotypes the registry
\* allows: a gene without mutant allele has only normal alleles.
InitBreed ==
  /\ JustStarted(WithZero)
  /\ dominantAllele \in [Genes -> Alleles \cup {NoAllele}]
  /\ father \in Genotypes
  /\ mother \in Genotypes
  /\ \A g \in Genes :
       dominantAllele[g] = NoAllele =>
         father[g] = FounderGenotype[g] /\ mother[g] = FounderGenotype[g]
  /\ offspring = NoOffspring
  /\ pendingMutation = NoGene
  /\ arena = Founders
  /\ floor = 0
  /\ capacity = MaxCapacity
  /\ culled = [i \in 1..MaxBunnies |-> 0]
  /\ pass = NoPass
  /\ ViewConstructed

\* breed( father, mother, pendingMutation? ) with random draws fi, mi, k and,
\* if the mutation has to be activated, dominance draw d.
BreedBirth(fi, mi, gene, k, d) ==
  /\ offspring = NoOffspring
  /\ offspring' = Breed(father, mother, fi, mi, gene, k)
  /\ pendingMutation' = gene
  /\ dominantAllele' = Activated(gene, d)
  /\ UNCHANGED <<clockGeneration, isPlaying, liveBunnyCounts, proportionsGeneration,
                 proportionsRange, startCounts, endCounts, currentStartCounts,
                 previousCounts, updateEndCountsListeners, simulationMode,
                 controlsEnabled, thrown, startGeneration, resetNote, emitted,
                 pendingStart>>
  /\ UNCHANGED <<father, mother, popVars, viewVars>>
  /\ AlleleRowLinks

NextBreed ==
  \E fi \in Draws, mi \in Draws, gene \in Genes \cup {NoGene}, k \in 1..2 :
    \E d \in ActivationDraws(gene) : BreedBirth(fi, mi, gene, k, d)

SpecBreed == InitBreed /\ [][NextBreed]_vars

----------------------------------------------------------------------------
\* The population of an active simulation and the selection engine.

\* The founders are alive and the selection engine is configured: a carrying
\* capacity that is a positive integer and a floor not above it.
InitPop ==
  /\ JustStarted(WithZero)
  /\ dominantAllele = GenePoolReset
  /\ father = FounderGenotype
  /\ mother = FounderGenotype
  /\ offspring = NoOffspring
  /\ pendingMutation = NoGene
  /\ arena = Founders
  /\ floor \in 0..MaxFloor
  /\ capacity \in 1..MaxCapacity
  /\ floor <= capacity
  /\ culled = [i \in 1..MaxBunnies |-> 0]
  /\ pass = NoPass
  /\ ViewConstructed

\* Reproduction: two distinct live organisms of the current generation get an
\* offspring, which belongs to the next generation.
Birth(f, m) ==
  /\ Len(arena) < MaxBunnies
  /\ f \in Alive(arena) /\ m \in Alive(arena) /\ f # m
  /\ arena[f].generation = CurrentGeneration(arena)
  /\ arena[m].generation = CurrentGeneration(arena)
  /\ arena' = Append(arena, Organism(CurrentGeneration(arena) + 1, f, m))
  /\ pass' = NoPass
  /\ UNCHANGED <<floor, capacity, culled>>
  /\ UNCHANGED <<simVars, breedVars, viewVars>>
  /\ AlleleRowLinks

\* One selection pass: predation, if enabled, culls among the live organisms,
\* then starvation, if enabled, culls among those that are still alive.
SelectionPass(predation, starvation, target) ==
  /\ Alive(arena) # {}
  /\ target <= Cardinality(Alive(arena))
  /\ \E K1 \in (IF predation THEN Predation(Alive(arena), target, floor) ELSE {{}}) :
       LET exposed == Alive(Kill(arena, K1)) IN
       \E K2 \in (IF starvation THEN Starvation(exposed, capacity) ELSE {{}}) :
         /\ arena' = Kill(Kill(arena, K1), K2)
         /\ culled' = CountDeaths(CountDeaths(culled, K1), K2)
         /\ pass' = [before |-> Alive(arena), predation |-> predation,
                     predated |-> K1, starvation |-> starvation,
                     exposed |-> exposed, starved |-> K2]
  /\ UNCHANGED <<floor, capacity>>
  /\ UNCHANGED <<simVars, breedVars, viewVars>>
  /\ AlleleRowLinks

\* End-of-generation retirement, once a newer generation exists.
Retire ==
  /\ Retired(arena) # {}
  /\ arena' = Kill(arena, Retired(arena))
  /\ culled' = CountDeaths(culled, Retired(arena))
  /\ pass' = NoPass
  /\ UNCHANGED <<floor, capacity>>
  /\ UNCHANGED <<simVars, breedVars, viewVars>>
  /\ AlleleRowLinks

NextPop ==
  \/ \E f \in 1..MaxBunnies, m \in 1..MaxBunnies : Birth(f, m)
  \/ \E predation \in BOOLEAN, starvation \in BOOLEAN, target \in 1..MaxBunnies :
       SelectionPass(predation, starvation, target)
  \/ Retire

SpecPop == InitPop /\ [][NextPop]_vars

----------------------------------------------------------------------------
\* The generation scroller at work.

\* The scroller is created on a range of any of the lengths.
InitScroll ==
  /\ ModelConstructed
  /\ \E len \in RangeLengths : ScrollerConstructed(len)
  /\ alleleRows = [g \in Genes |-> Row(dominantAllele[g])]
  /\ pedigree = NoPedigree

\* What a step of the scroller leaves alone.
ScrollerOnly ==
  /\ resetNote' = NoReset
  /\ emitted' = "none"
  /\ UNCHANGED <<simulationMode, dominantAllele, controlsEnabled, startGeneration,
                 pendingStart, rangeLength, pedigree>>
  /\ UNCHANGED <<breedVars, popVars>>
  /\ AlleleRowLinks

\* The multilink on [ rangeProperty, maxProperty ] runs.
ButtonsFollow ==
  /\ backButtonEnabled' = EnableButtons(rangeProperty', maxProperty').back
  /\ forwardButtonEnabled' = EnableButtons(rangeProperty', maxProperty').forward

\* The user presses the back button.
BackPress ==
  /\ backButtonEnabled
  /\ direction \in {"any", "back"}
  /\ Commit(SetIsPlaying(Cur, FALSE))   \* pause the sim when we scroll back
  /\ rangeProperty' = Back(rangeProperty, rangeLength)
  /\ UNCHANGED <<maxProperty, direction>>
  /\ ButtonsFollow
  /\ pressed' = "back"
  /\ ScrollerOnly

\* The user presses the forward button.
ForwardPress ==
  /\ forwardButtonEnabled
  /\ direction \in {"any", "forward"}
  /\ rangeProperty' = Forward(rangeProperty, maxProperty, rangeLength)
  /\ UNCHANGED <<maxProperty, direction>>
  /\ ButtonsFollow
  /\ pressed' = "forward"
  /\ UNCHANGED <<clockGeneration, isPlaying, liveBunnyCounts, proportionsGeneration,
                 proportionsRange, startCounts, endCounts, currentStartCounts,
                 previousCounts, updateEndCountsListeners, thrown>>
  /\ ScrollerOnly

\* While the sim plays, time goes on by one tick.
TimeAdvance ==
  /\ isPlaying
  /\ direction = "any"
  /\ maxProperty < MaxTime * TicksPerGeneration
  /\ maxProperty' = maxProperty + 1
  /\ UNCHANGED <<rangeProperty, direction>>
  /\ ButtonsFollow
  /\ pressed' = "none"
  /\ UNCHANGED <<clockGeneration, isPlaying, liveBunnyCounts, proportionsGeneration,
                 proportionsRange, startCounts, endCounts, currentStartCounts,
                 previousCounts, updateEndCountsListeners, thrown>>
  /\ ScrollerOnly

\* The user presses the play button.
Resume ==
  /\ ~isPlaying
  /\ controlsEnabled["timeControlNode"]
  /\ direction = "any"
  /\ Commit(SetIsPlaying(Cur, TRUE))
  /\ UNCHANGED <<rangeProperty, maxProperty, direction, backButtonEnabled,
                 forwardButtonEnabled>>
  /\ pressed' = "none"
  /\ ScrollerOnly

\* The user sets about pressing one button only, or stops doing so.
Repeat(button) ==
  /\ button # direction
  /\ direction' = button
  /\ UNCHANGED <<rangeProperty, maxProperty, backButtonEnabled, forwardButtonEnabled>>
  /\ pressed' = "none"
  /\ UNCHANGED <<clockGeneration, isPlaying, liveBunnyCounts, proportionsGeneration,
                 proportionsRange, startCounts, endCounts, currentStartCounts,
                 previousCounts, updateEndCountsListeners, thrown>>
  /\ ScrollerOnly

NextScroll ==
  \/ BackPress
  \/ ForwardPress
  \/ TimeAdvance
  \/ Resume
  \/ \E button \in {"any", "back", "forward"} : Repeat(button)

SpecScroll == InitScroll /\ [][NextScroll]_vars

\* A user who sets about pressing an enabled button goes on to press it.
SpecScrollLive ==
  SpecScroll /\ WF_vars(BackPress) /\ WF_vars(ForwardPress)

----------------------------------------------------------------------------
\* The Pedigree graph of a population.

\* The Pedigree graph shows the branch of a bunny, built to some depth.
ShowPedigree(bunny, branchDepth) ==
  /\ bunny \in Ids(arena)
  /\ pedigree' = [bunny |-> bunny, depth |-> branchDepth,
                  nodes |-> PedigreeBranchNode(arena, bunny, branchDepth, 0)]
  /\ UNCHANGED <<simVars, breedVars, popVars, scrollVars>>
  /\ AlleleRowLinks

NextPedigree ==
  \/ \E f \in 1..MaxBunnies, m \in 1..MaxBunnies : Birth(f, m)
  \/ Retire
  \/ \E bunny \in 1..MaxBunnies, branchDepth \in 1..MaxDepth :
       ShowPedigree(bunny, branchDepth)

SpecPedigree == InitPop /\ [][NextPedigree]_vars

----------------------------------------------------------------------------
\* Properties of the generation scroller (SpecScroll, SpecScrollLive).

\* C24: the scroller maintains the initial range length: after any presses of
\* back and forward the length of the range is the one it had when the
\* scroller was created; a back press also sets isPlaying to false, a forward
\* press leaves isPlaying as it is.
C24_ScrollerMaintainsRangeLength ==
  /\ [](rangeProperty[2] - rangeProperty[1] = rangeLength)
  /\ [][/\ rangeLength' = rangeLength
        /\ pressed' = "back" => ~isPlaying'
        /\ pressed' = "forward" => isPlaying' = isPlaying]_vars

\* The sim was paused by the back press that brought the range to where it
\* is, after forward presses had moved it.
C24_Witness ==
  /\ pressed = "back"
  /\ ~isPlaying
  /\ rangeProperty[1] > 0
  /\ rangeProperty[2] - rangeProperty[1] = rangeLength

\* C25: with a range length of a whole number of generations and a step of
\* one generation, when each button is pressed only while it is enabled, a
\* press never brings the lower end of the range below 0 nor the upper end
\* above maxProperty; a forward press strictly increases the upper end and a
\* back press strictly decreases it; and someone who keeps pressing one
\* button finds it disabled after finitely many presses.
C25_ScrollerStaysWithinBounds ==
  /\ [][/\ pressed' = "forward" =>
             /\ rangeProperty'[2] > rangeProperty[2]
             /\ rangeProperty'[2] <= maxProperty'
             /\ rangeProperty'[1] >= 0
        /\ pressed' = "back" =>
             /\ rangeProperty'[2] < rangeProperty[2]
             /\ rangeProperty'[2] <= maxProperty'
             /\ rangeProperty'[1] >= 0]_vars
  /\ [](backButtonEnabled <=> rangeProperty[1] > 0)
  /\ [](forwardButtonEnabled <=> rangeProperty[2] < maxProperty)
  /\ (direction = "back") ~> (~backButtonEnabled \/ direction # "back")
  /\ (direction = "forward") ~> (~forwardButtonEnabled \/ direction # "forward")

\* Forward was pressed until the upper end of the range reached maxProperty,
\* which is not a whole number of generations, and the button got disabled.
C25_Witness ==
  /\ pressed = "forward"
  /\ direction = "forward"
  /\ ~forwardButtonEnabled
  /\ rangeProperty[2] = maxProperty
  /\ maxProperty % TicksPerGeneration # 0
  /\ rangeProperty[1] > 0

----------------------------------------------------------------------------
\* Properties of the Pedigree graph (SpecPedigree).

----------------------------------------------------------------------------
\* Properties of the Alleles panel (SpecAlleles).

\* C27 (as stated): for every gene the checkbox of its row is enabled and its
\* allele icons are shown if and only if the gene has a dominant allele, the
\* alleles-visible flag is true only then, and the dominant icon is the
\* mutant allele's image exactly when the mutant allele is dominant.
C27_RowFollowsDominance_AsStated ==
  \A g \in Genes :
    /\ alleleRows[g].checkboxEnabled <=> dominantAllele[g] # NoAllele
    /\ alleleRows[g].hBoxVisible <=> dominantAllele[g] # NoAllele
    /\ alleleRows[g].visible => dominantAllele[g] # NoAllele
    /\ alleleRows[g].dominantImage = "mutant" <=> dominantAllele[g] = "mutant"

\* C27: for every gene the checkbox of its row is enabled and its allele
\* icons are shown if and only if the gene has a dominant allele, the
\* alleles-visible flag is true only then, and, while the gene has a dominant
\* allele, the dominant icon is the mutant allele's image exactly when the
\* mutant allele is dominant, the recessive icon being the other image.
C27_RowFollowsDominance ==
  \A g \in Genes :
    /\ alleleRows[g].checkboxEnabled <=> dominantAllele[g] # NoAllele
    /\ alleleRows[g].hBoxVisible <=> dominantAllele[g] # NoAllele
    /\ alleleRows[g].visible => dominantAllele[g] # NoAllele
    /\ dominantAllele[g] # NoAllele =>
         /\ alleleRows[g].dominantImage = "mutant" <=> dominantAllele[g] = "mutant"
         /\ alleleRows[g].recessiveImage # alleleRows[g].dominantImage

\* One gene has mutated with the mutant allele dominant and its alleles were
\* hidden by the user; another has mutated with the mutant allele recessive.
C27_Witness ==
  \E g, h \in Genes :
    /\ dominantAllele[g] = "mutant"
    /\ alleleRows[g].dominantImage = "mutant"
    /\ ~alleleRows[g].visible
    /\ dominantAllele[h] = "normal"
    /\ alleleRows[h].visible
    /\ alleleRows[h].checkboxEnabled

----------------------------------------------------------------------------
\* Properties of the ledger under arbitrary callers (Spec).

\* C1: recordStartCounts( g, c ) is accepted, and sets the current start
\* counts to c, exactly when g is the clock's current generation; for every
\* other g it fails with the out-of-order error and sets nothing.
C1_RecordStartOnlyCurrentGeneration ==
  [][\A g \in Generations, c \in Counts :
       CallRecordStartCounts(g, c) =>
         IF g = clockGeneration
         THEN thrown' \notin OutOfOrder /\ currentStartCounts' = c
         ELSE thrown' = "NotCurrentGeneration"
              /\ currentStartCounts' = currentStartCounts]_vars

\* A recordStartCounts for a generation other than the clock's was rejected.
C1_Witness ==
  /\ thrown = "NotCurrentGeneration"
  /\ clockGeneration > 0
  /\ currentStartCounts # NULL

\* C2: recordEndCounts( g, c ) appends a record only when g is the clock's
\* generation minus 1 and the history holds exactly g records (none for g
\* yet); otherwise it fails with an out-of-order error and appends nothing.
\* So the record appended is always the one for generation Len(history), and
\* the generations of the history are strictly increasing.
C2_RecordEndOncePerGenerationInOrder ==
  [][\A g \in Generations, c \in Counts :
       CallRecordEndCounts(g, c) =>
         LET inOrder == (g = clockGeneration - 1) /\ (Len(previousCounts) = g) IN
         /\ inOrder /\ currentStartCounts # NULL =>
              /\ thrown' = "none"
              /\ previousCounts' =
                   Append(previousCounts,
                          [generation |-> g, startCounts |-> currentStartCounts,
                           endCounts |-> c])
         /\ ~inOrder => thrown' \in OutOfOrder /\ previousCounts' = previousCounts
         /\ \A i, j \in 1..Len(previousCounts') :
              i < j => previousCounts'[i].generation < previousCounts'[j].generation]_vars

\* With two records in the history, a second recordEndCounts for the
\* generation that just got its record was rejected.
C2_Witness ==
  /\ thrown = "UnexpectedEndGeneration"
  /\ Len(previousCounts) = 2
  /\ clockGeneration = 2

\* C3: once generation g has its record (recordStartCounts( g ) and then
\* recordEndCounts( g ) were accepted since the last reset), every further
\* recordStartCounts( g, ... ) or recordEndCounts( g, ... ) fails with an
\* out-of-order error.
C3_ThirdCallRejected ==
  [][\A g \in Generations, c \in Counts :
       /\ g < Len(previousCounts)
       /\ CallRecordStartCounts(g, c) \/ CallRecordEndCounts(g, c)
       => thrown' \in OutOfOrder /\ UNCHANGED <<currentStartCounts, previousCounts>>]_vars

\* The start counts of generation clock-1 were accepted, then its end counts
\* (its record is the last of the history), and a further recordEndCounts for
\* it was rejected.
C3_Witness ==
  /\ thrown = "UnexpectedEndGeneration"
  /\ clockGeneration >= 1
  /\ Len(previousCounts) = clockGeneration
  /\ startGeneration = clockGeneration - 1

\* C4: while the clock stays at generation g, a second recordStartCounts( g )
\* after an accepted first one is rejected, and the start counts recorded for
\* g keep their first value.
C4_SecondStartRejected ==
  [][\A c \in Counts :
       /\ startGeneration = clockGeneration
       /\ CallRecordStartCounts(clockGeneration, c)
       => thrown' \in OutOfOrder /\ currentStartCounts' = currentStartCounts]_vars

\* C5: the record stored at index i of the history has generation number i
\* (the history is strictly increasing by generation, with no gaps).
C5_HistoryIndexedByGeneration ==
  \A i \in 1..Len(previousCounts) : previousCounts[i].generation = i - 1

\* The history holds the records of generations 0 and 1.
C5_Witness ==
  /\ Len(previousCounts) = 2
  /\ previousCounts[2].generation = 1

\* C8 (as claimed): the history is bounded by a configurable retention
\* limit, the oldest records being evicted once it is exceeded: it never
\* holds more than RetentionLimit records.
C8_BoundedByRetentionLimit ==
  Len(previousCounts) <= RetentionLimit

\* C8 (amended): the ledger has no retention limit and evicts nothing.  A step
\* leaves the history as it is, appends one record to it (so that it holds one
\* record per generation the clock has left: its length is at most the clock's
\* generation), or is a reset, which empties it.
C8_HistoryGrowsUntilReset ==
  [][\/ previousCounts' = previousCounts
     \/ /\ Len(previousCounts') = Len(previousCounts) + 1
        /\ SubSeq(previousCounts', 1, Len(previousCounts)) = previousCounts
        /\ Len(previousCounts') <= clockGeneration'
     \/ /\ previousCounts' = << >>
        /\ resetNote'.count >= 1]_vars

\* The history has grown past one record, the oldest still in it.
C8_Witness ==
  /\ Len(previousCounts) = 2
  /\ previousCounts[1].generation = 0

\* C18: the record of generation g holds as start counts the counts passed
\* to the accepted recordStartCounts for generation g, whatever accepted
\* calls came between: in particular not the counts of a recordStartCounts
\* for generation g+1 accepted before recordEndCounts( g ).
C18_RecordHoldsItsOwnStartCounts ==
  [][Len(previousCounts') = Len(previousCounts) + 1 =>
       previousCounts'[Len(previousCounts')].startCounts = pendingStart]_vars

\* C21: when the sim starts playing, or the clock's generation changes while
\* it plays, the displayed generation is the clock's generation after the
\* step and its range is [0, clock generation]; when the sim is not playing,
\* a change of the clock's generation (other than the reset of the model)
\* leaves the displayed generation and its range as they are.
C21_ShowCurrentGenerationWhilePlaying ==
  [][/\ (isPlaying' /\ (~isPlaying \/ clockGeneration' # clockGeneration)) =>
          /\ proportionsGeneration' = clockGeneration'
          /\ proportionsRange' = <<0, clockGeneration'>>
     /\ (~isPlaying /\ clockGeneration' # clockGeneration /\ resetNote'.count = 0) =>
          /\ proportionsGeneration' = proportionsGeneration
          /\ proportionsRange' = proportionsRange]_vars

\* The clock went on while the sim was paused: the displayed generation and
\* the upper end of its range stayed behind.
C21_Witness ==
  /\ ~isPlaying
  /\ proportionsGeneration < clockGeneration
  /\ proportionsRange[2] < clockGeneration
  /\ proportionsRange[2] >= 1

\* C29: a rejected ledger call leaves the ledger unchanged: when
\* recordStartCounts or recordEndCounts fails one of its checks (wrong
\* generation, end record already present, no start counts to build the
\* record from), the current start counts, the history and the start and end
\* counts displayed are those of before the call.
C29_RejectedCallChangesNothing ==
  [][thrown' \in Rejected =>
       /\ currentStartCounts' = currentStartCounts
       /\ previousCounts' = previousCounts
       /\ startCounts' = startCounts
       /\ endCounts' = endCounts]_vars

\* A call has just been rejected by a ledger that holds start counts and a
\* record.
C29_Witness ==
  /\ thrown \in Rejected
  /\ currentStartCounts # NULL
  /\ Len(previousCounts) >= 1

----------------------------------------------------------------------------
\* Properties of the simulation (SpecCtl, SpecGenes).

\* C22: whenever the ledger has data and a generation g other than the
\* clock's generation is displayed, the history has an entry at index g whose
\* generation is g (the display never fails with 'unexpected generation' nor
\* reads an entry that is not there), and the start and end counts displayed
\* are that entry's.
C22_PreviousGenerationIsRecorded ==
  /\ thrown \notin {"TypeError", "UnexpectedGeneration"}
  /\ (currentStartCounts # NULL /\ proportionsGeneration # clockGeneration) =>
       /\ proportionsGeneration < Len(previousCounts)
       /\ previousCounts[proportionsGeneration + 1].generation = proportionsGeneration
       /\ startCounts = previousCounts[proportionsGeneration + 1].startCounts
       /\ endCounts = previousCounts[proportionsGeneration + 1].endCounts

\* A previous generation is displayed whose record differs from the current
\* counts.
C22_Witness ==
  /\ currentStartCounts # NULL
  /\ proportionsGeneration < clockGeneration
  /\ proportionsGeneration < Len(previousCounts)
  /\ startCounts = previousCounts[proportionsGeneration + 1].startCounts
  /\ startCounts # currentStartCounts
  /\ endCounts # liveBunnyCounts
  /\ thrown = "none"

\* C23: while a previous generation is displayed, or the ledger has no data,
\* a change of the live counts leaves the end counts displayed as they are;
\* updateEndCounts is attached to the live counts at most once, and not at
\* all in those two cases.
C23_OneListenerOnlyForCurrent ==
  /\ [](updateEndCountsListeners <= 1)
  /\ []((proportionsGeneration # clockGeneration \/ currentStartCounts = NULL)
          => updateEndCountsListeners = 0)
  /\ [][(/\ liveBunnyCounts' # liveBunnyCounts
         /\ proportionsGeneration' = proportionsGeneration
         /\ clockGeneration' = clockGeneration
         /\ currentStartCounts' = currentStartCounts
         /\ (proportionsGeneration # clockGeneration \/ currentStartCounts = NULL))
        => endCounts' = endCounts]_vars

\* The live counts have moved away from the end counts of the previous
\* generation displayed, after updateEndCounts was attached and detached.
C23_Witness ==
  /\ currentStartCounts # NULL
  /\ proportionsGeneration < clockGeneration
  /\ updateEndCountsListeners = 0
  /\ endCounts # liveBunnyCounts
  /\ liveBunnyCounts # currentStartCounts
  /\ thrown = "none"

\* C6: a record for generation g exists exactly when g has completed its
\* cycle: after every generation-boundary step the history holds the records
\* of the generations 0 .. clockGeneration-1, and never one for the clock's
\* current generation.
C6_RecordsExactlyCompletedGenerations ==
  /\ Len(previousCounts) = clockGeneration
  /\ {previousCounts[i].generation : i \in 1..Len(previousCounts)}
       = 0..(clockGeneration - 1)

\* Two boundaries have been passed and the simulation is still active.
C6_Witness ==
  /\ simulationMode = "ACTIVE"
  /\ clockGeneration = 2
  /\ Len(previousCounts) = 2

C28_ControlsEnabledUnlessCompleted ==
  /\ [](\A c \in Controls : controlsEnabled[c] <=> simulationMode # "COMPLETED")
  /\ [][/\ emitted' # "none" => \A c \in Controls : ~controlsEnabled'[c]
        /\ (simulationMode = "COMPLETED" /\ simulationMode' # "COMPLETED")
             => \A c \in Controls : controlsEnabled'[c]]_vars

\* A terminal event has just disabled the controls of a playing simulation.
C28_Witness ==
  /\ emitted # "none"
  /\ simulationMode = "COMPLETED"
  /\ \A c \in Controls : ~controlsEnabled[c]
  /\ clockGeneration >= 1

\* C9: whenever the ledger has data and the displayed generation is the
\* clock's current generation, the end ('currently') counts are the live
\* counts, following them through the updateEndCounts listener, and the start
\* counts are the start counts recorded for the current generation.
C9_CurrentlyCountsAreLive ==
  (currentStartCounts # NULL /\ proportionsGeneration = clockGeneration)
    => /\ endCounts = liveBunnyCounts
       /\ startCounts = currentStartCounts
       /\ updateEndCountsListeners >= 1

\* The current generation is displayed and the live counts have moved away
\* from its start counts.
C9_Witness ==
  /\ currentStartCounts # NULL
  /\ proportionsGeneration = clockGeneration
  /\ clockGeneration >= 1
  /\ liveBunnyCounts # currentStartCounts
  /\ endCounts = liveBunnyCounts

\* C10: after reset (once or several times in a row) every gene's dominance
\* is unknown and the ledger is in its initial empty state: no history, no
\* current start counts, generation 0 displayed with range [0,0], start and
\* end counts zero.  The state after a second reset is this same state.
C10_ResetRestoresInitialLedger ==
  resetNote.count >= 1 =>
    /\ \A g \in Genes : dominantAllele[g] = NoAllele
    /\ previousCounts = << >>
    /\ currentStartCounts = NULL
    /\ proportionsGeneration = 0
    /\ proportionsRange = <<0, 0>>
    /\ startCounts = WithZero
    /\ endCounts = WithZero
    /\ updateEndCountsListeners = 0

\* Reset was pressed twice in a row, the first time with records in the
\* history and a gene mutated.
C10_Witness ==
  /\ resetNote.count = 2
  /\ resetNote.records >= 1
  /\ resetNote.mutated

\* C11: Completed is terminal.  While the mode is COMPLETED the UI controls
\* that the mode link governs are disabled, and a step taken in COMPLETED
\* either leaves the mode and the clock's generation as they are, or it is a
\* full reset (reset all / start over): the mode goes to STAGED, the clock to
\* generation 0, every gene's dominance is unknown again and the ledger is
\* empty.
C11_CompletedIsTerminal ==
  /\ [](simulationMode = "COMPLETED" => \A c \in Controls : ~controlsEnabled[c])
  /\ [][simulationMode = "COMPLETED" =>
          \/ /\ simulationMode' = "COMPLETED"
             /\ clockGeneration' = clockGeneration
             /\ dominantAllele' = dominantAllele
          \/ /\ simulationMode' = "STAGED"
             /\ clockGeneration' = 0
             /\ \A g \in Genes : dominantAllele'[g] = NoAllele
             /\ previousCounts' = << >>
             /\ currentStartCounts' = NULL]_vars

\* The simulation completed after a mutation and a generation boundary, and
\* another generation of the graph is being viewed in the completed state.
C11_Witness ==
  /\ simulationMode = "COMPLETED"
  /\ clockGeneration >= 1
  /\ proportionsGeneration # clockGeneration
  /\ \E g \in Genes : dominantAllele[g] # NoAllele

\* C12: each terminal event (all bunnies have died, bunnies have taken over
\* the world, memory limit) drives the mode to COMPLETED in the step in which
\* it is emitted, and the mode becomes COMPLETED in no other step.
C12_TerminalEventsComplete ==
  /\ [](emitted # "none" => simulationMode = "COMPLETED")
  /\ [][(simulationMode # "COMPLETED" /\ simulationMode' = "COMPLETED")
          => emitted' # "none"]_vars

\* The memory limit was reached after a generation boundary.
C12_Witness ==
  /\ emitted = "memoryLimit"
  /\ simulationMode = "COMPLETED"
  /\ clockGeneration >= 1

\* C14: a gene's dominance is unknown until its mutation is first activated,
\* is assigned then, and keeps the assigned value in every later step of the
\* run; it becomes unknown again only by a reset (reset all / start over),
\* which makes the dominance of every gene unknown.
C14_DominanceAssignedOnce ==
  /\ [](simulationMode = "STAGED" => \A g \in Genes : dominantAllele[g] = NoAllele)
  /\ [][\A g \in Genes :
          dominantAllele[g] # NoAllele =>
            \/ dominantAllele'[g] = dominantAllele[g]
            \/ /\ simulationMode' = "STAGED"
               /\ \A h \in Genes : dominantAllele'[h] = NoAllele]_vars

\* Two genes got their dominance, one of them the mutant allele and the other
\* the normal one, and a generation boundary has been passed since.
C14_Witness ==
  /\ dominantAllele["fur"] = "mutant"
  /\ dominantAllele["ears"] = "normal"
  /\ dominantAllele["teeth"] = NoAllele
  /\ clockGeneration >= 1

\* C19: the start counts of the current generation are null until the
\* simulation enters the ACTIVE mode (also after a reset, which takes it back
\* to STAGED), and they are non-null (hasDataProperty is true) in every state
\* in which the mode is ACTIVE.
C19_StartCountsNullUntilActive ==
  /\ simulationMode = "STAGED" => currentStartCounts = NULL
  /\ simulationMode = "ACTIVE" => currentStartCounts # NULL

\* The simulation is staged again after a reset that found records in the
\* history.
C19_Witness ==
  /\ simulationMode = "STAGED"
  /\ resetNote.count >= 1
  /\ resetNote.records >= 1
  /\ currentStartCounts = NULL

\* C20: viewing a generation other than the current one pauses the sim:
\* whenever a step sets the displayed generation to a value different from the
\* clock's generation, isPlaying is false after it; and in every state
\* isPlaying implies that the displayed generation is the clock's generation.
C20_ViewingAnotherGenerationPauses ==
  /\ [](isPlaying => proportionsGeneration = clockGeneration)
  /\ [][(proportionsGeneration' # proportionsGeneration
           /\ proportionsGeneration' # clockGeneration') => ~isPlaying']_vars

\* An earlier generation is being viewed in the active simulation, which is
\* paused.
C20_Witness ==
  /\ simulationMode = "ACTIVE"
  /\ proportionsGeneration < clockGeneration
  /\ ~isPlaying

----------------------------------------------------------------------------
\* Properties of the inheritance engine (SpecBreed).

\* C13: for all parent genotypes and every gene, the allele pair of an
\* offspring made by breed consists of one allele of the father's pair for
\* that gene and one allele of the mother's pair; a pending mutation applied
\* to the birth changes this for its own gene only.
C13_OneAlleleFromEachParent ==
  offspring # NoOffspring =>
    \A g \in Genes :
      g # pendingMutation =>
        \E a \in AllelesOf(father[g]), b \in AllelesOf(mother[g]) :
          offspring[g] = UnorderedPair(a, b)

\* A birth without pending mutation from a father heterozygous for fur and
\* a mother with two mutant fur alleles: the offspring got the father's
\* normal allele and one of the mother's mutant alleles.
C13_Witness ==
  /\ offspring # NoOffspring
  /\ pendingMutation = NoGene
  /\ father["fur"] = <<"normal", "mutant">>
  /\ mother["fur"] = <<"mutant", "mutant">>
  /\ offspring["fur"] = <<"normal", "mutant">>

----------------------------------------------------------------------------
\* Properties of the selection engine and of the population (SpecPop).

C16_StarvationCullsExcess ==
  (pass.starvation /\ Cardinality(pass.exposed) > capacity) =>
    /\ Cardinality(pass.starved) = Cardinality(pass.exposed) - capacity
    /\ pass.starved \subseteq pass.exposed
    /\ Alive(arena) = pass.exposed \ pass.starved
    /\ Cardinality(Alive(arena)) = capacity
    /\ Alive(arena) \subseteq pass.before

\* Starvation alone culled two of four live organisms down to a capacity of two.
C16_Witness ==
  /\ pass.starvation
  /\ ~pass.predation
  /\ capacity = 2
  /\ Cardinality(pass.before) = 4
  /\ Cardinality(pass.starved) = 2

\* C17: an organism's alive flag goes from true to false at most once and
\* never back to true; organisms are never removed from the arena nor
\* changed otherwise, so the parents of every organism stay reachable; the
\* live organisms are those whose flag never went to false.
C17_DiesOnceAndStays ==
  /\ [](\A i \in Ids(arena) :
          /\ culled[i] <= 1
          /\ arena[i].alive <=> culled[i] = 0
          /\ arena[i].father # NoParent =>
               /\ arena[i].father \in Ids(arena)
               /\ arena[i].mother \in Ids(arena)
               /\ arena[arena[i].father].generation < arena[i].generation
               /\ arena[arena[i].mother].generation < arena[i].generation)
  /\ [][\A i \in Ids(arena) :
          /\ i \in Ids(arena')
          /\ arena'[i].generation = arena[i].generation
          /\ arena'[i].father = arena[i].father
          /\ arena'[i].mother = arena[i].mother
          /\ ~arena[i].alive => ~arena'[i].alive]_vars

\* A live organism whose father was culled by selection and whose mother was
\* retired at the end of her generation.
C17_Witness ==
  \E i \in Ids(arena) :
    /\ arena[i].alive
    /\ arena[i].father # NoParent
    /\ ~arena[arena[i].father].alive
    /\ ~arena[arena[i].mother].alive
    /\ arena[i].father \in pass.before
    /\ arena[i].mother \notin pass.before

====
